---- MODULE Spec2Model ----
(***************************************************************************)
(* Model of the longpage crate: the sparse, block based container           *)
(* (src/src/sparse_vec.rs) and the prefetch planner (src/src/lib.rs).       *)
(*                                                                         *)
(* Rust Option<X> is modelled as a sequence of length at most one:          *)
(* << >> is None and <<x>> is Some(x).  A Range<usize> a..b is the record   *)
(* [start |-> a, end |-> b].  A slice iterator is the sequence of the       *)
(* elements it has not yet delivered.                                       *)
(***************************************************************************)
EXTENDS Integers, Sequences, FiniteSets, TLC

(* ---------------------------- bounds ---------------------------------- *)
\* largest logical length given to with_len, and longest vector given to From
MaxLen == 3
\* largest number of blocks a container is grown to
MaxBlocks == 3
\* longest vector handed to insert_vec
MaxData == 2
\* the same three bounds for the specification that only grows the container
MaxGrowLen == 5
MaxGrowBlocks == 5
MaxGrowData == 2
\* width of usize in the model
UsizeBits == 16
\* at the top of the usize range: the number of blocks a container is grown
\* to, how far below usize::MAX an insert starts, and how far below it a
\* view starts
MaxTopBlocks == 2
MaxTopStart == 3
MaxTopView == 12

\* the vectors handed to From and to insert_vec: <<1, 2, .., k>>, one of every
\* length up to n, so that an element names its place in its block; the code
\* never looks at an element
Runs(n) == {[i \in 1..k |-> i] : k \in 0..n}
FullVecs == Runs(MaxLen)
Datas == Runs(MaxData)
GrowDatas == Runs(MaxGrowData)

USIZE_MAX == 2^UsizeBits - 1

Range(a, b) == [start |-> a, end |-> b]
\* ExactSizeIterator::len of a Range<usize>: 0 when start >= end
RangeLen(r) == IF r.end > r.start THEN r.end - r.start ELSE 0

\* usize addition: the sum exceeds usize::MAX
Overflows(a, b) == a + b > USIZE_MAX
\* usize addition as a build without overflow checks computes it
WrappingAdd(a, b) == (a + b) % (USIZE_MAX + 1)

\* usize::checked_sub(..).unwrap_or(0)
CheckedSubOr0(a, b) == IF a >= b THEN a - b ELSE 0
Min(a, b) == IF a <= b THEN a ELSE b

VARIABLES
    len,        \* SparseVec.len
    blocks,     \* SparseVec.blocks : sequence of [offset, data]
    op,         \* the last operation called on the container
    arg,        \* its range argument (insert_vec: start..start+len(vec))
    ok,         \* FALSE when the last call panicked
    out,        \* the items collected by the last iter / iter_range
    request     \* the result of the last next_request_for_view

vars == <<len, blocks, op, arg, ok, out, request>>

(* ------------------------- SparseVec ---------------------------------- *)
with_len(n) == [len |-> n, blocks |-> << >>]

\* From<Vec<T>> with the logical length one too long
from_longer(vec) == [len |-> Len(vec) + 1, blocks |-> <<[offset |-> 0, data |-> vec]>>]

from(vec) == [len |-> Len(vec), blocks |-> <<[offset |-> 0, data |-> vec]>>]

\* Iterator::position(|(offset, _)| *offset >= start), 1-based; 0 when none
RECURSIVE position(_, _, _)
position(bs, start, i) ==
    IF i > Len(bs) THEN 0
    ELSE IF bs[i].offset >= start THEN i
    ELSE position(bs, start, i + 1)

\* insert_pos, 1-based: Rust's insert_pos + 1
insert_pos(bs, start) ==
    LET p == position(bs, start, 1) IN IF p = 0 THEN Len(bs) + 1 ELSE p

\* the two assertions of insert_vec; their additions are usize additions,
\* which wrap in a build without overflow checks
insert_asserts(bs, start, vec) ==
    LET p == insert_pos(bs, start) IN
    /\ IF p = 1 THEN TRUE
       ELSE start >= WrappingAdd(bs[p - 1].offset, Len(bs[p - 1].data))
    /\ WrappingAdd(start, Len(vec))
           <= (IF p <= Len(bs) THEN bs[p].offset ELSE USIZE_MAX)

\* an addition that insert_vec evaluates overflows: a build with overflow
\* checks panics there.  The addition of the first assertion is evaluated
\* when insert_pos is not 0, the addition of the second only when the first
\* assertion has held
insert_overflows(bs, start, vec) ==
    LET p == insert_pos(bs, start) IN
    IF p = 1 THEN Overflows(start, Len(vec))
    ELSE IF Overflows(bs[p - 1].offset, Len(bs[p - 1].data)) THEN TRUE
    ELSE IF start < bs[p - 1].offset + Len(bs[p - 1].data) THEN FALSE
    ELSE Overflows(start, Len(vec))

\* a new block that touches the block before it is merged into that block
insert_vec_merging(bs, start, vec) ==
    LET p == insert_pos(bs, start) IN
    IF p > 1 /\ bs[p - 1].offset + Len(bs[p - 1].data) = start
    THEN [bs EXCEPT ![p - 1].data = @ \o vec]
    ELSE SubSeq(bs, 1, p - 1) \o <<[offset |-> start, data |-> vec]>>
             \o SubSeq(bs, p, Len(bs))

\* Vec::insert(insert_pos, (start, vec))
insert_vec(bs, start, vec) ==
    LET p == insert_pos(bs, start) IN
    SubSeq(bs, 1, p - 1) \o <<[offset |-> start, data |-> vec]>>
        \o SubSeq(bs, p, Len(bs))

(* ----------------------------- Iter ----------------------------------- *)
\* Iterator::skip(n) on a slice iterator
Skip(s, n) == SubSeq(s, n + 1, Len(s))

iter(self) ==
    [len |-> self.len, position |-> 0,
     blocks_iter |-> self.blocks, block_iter |-> << >>]

\* the loop of iter_range that discards the blocks before the start
RECURSIVE discard(_, _)
discard(bi, start) ==
    IF bi = << >> THEN [blocks_iter |-> << >>, block_iter |-> << >>]
    ELSE LET b == Head(bi) IN
         IF start < WrappingAdd(b.offset, Len(b.data))
         THEN [blocks_iter |-> Tail(bi),
               block_iter |-> <<[offset |-> b.offset,
                                 iter |-> Skip(b.data, CheckedSubOr0(start, b.offset))]>>]
         ELSE discard(Tail(bi), start)

\* offset + vec.len() overflows for a block the loop of iter_range looks at:
\* a build with overflow checks panics there
RECURSIVE discard_overflows(_, _)
discard_overflows(bi, start) ==
    IF bi = << >> THEN FALSE
    ELSE LET b == Head(bi) IN
         IF Overflows(b.offset, Len(b.data)) THEN TRUE
         ELSE IF start < b.offset + Len(b.data) THEN FALSE
         ELSE discard_overflows(Tail(bi), start)

iter_range(self, idxs) ==
    LET d == discard(self.blocks, idxs.start) IN
    [len |-> idxs.end, position |-> idxs.start,
     blocks_iter |-> d.blocks_iter, block_iter |-> d.block_iter]

next_block(it) ==
    IF it.blocks_iter = << >>
    THEN [it EXCEPT !.block_iter = << >>]
    ELSE [it EXCEPT !.block_iter = <<[offset |-> Head(it.blocks_iter).offset,
                                      iter |-> Skip(Head(it.blocks_iter).data, 0)]>>,
                    !.blocks_iter = Tail(it.blocks_iter)]

\* block_iter.next() of the current block: the iterator after it
advance(it) ==
    [it EXCEPT !.block_iter = <<[offset |-> it.block_iter[1].offset,
                                 iter |-> Tail(it.block_iter[1].iter)]>>]

\* the end test of Iter::next, off by one
at_end_late(it) == it.position > it.len

\* the end test of Iter::next
at_end(it) == it.position >= it.len

\* Iter::next: [it |-> the iterator after the call, item |-> Option<Option<T>>]
next(it0) ==
    IF at_end(it0) THEN [it |-> it0, item |-> << >>]
    ELSE
      LET it1 == IF it0.block_iter = << >> THEN next_block(it0) ELSE it0
          r == IF it1.block_iter # << >>
               THEN IF it1.position < it1.block_iter[1].offset
                    THEN [it |-> it1, result |-> << >>]
                    ELSE IF it1.block_iter[1].iter # << >>
                    THEN [it |-> advance(it1),
                          result |-> <<Head(it1.block_iter[1].iter)>>]
                    ELSE LET it2 == next_block(it1) IN
                         IF it2.block_iter # << >>
                         THEN IF it2.position < it2.block_iter[1].offset
                              THEN [it |-> it2, result |-> << >>]
                              ELSE IF it2.block_iter[1].iter # << >>
                              THEN [it |-> advance(it2),
                                    result |-> <<Head(it2.block_iter[1].iter)>>]
                              ELSE [it |-> it2, result |-> << >>]
                         ELSE [it |-> it2, result |-> << >>]
               ELSE [it |-> it1, result |-> << >>]
      IN [it |-> [r.it EXCEPT !.position = @ + 1], item |-> <<r.result>>]

\* Iterator::collect: call next until it returns None
RECURSIVE collect(_)
collect(it) ==
    LET n == next(it) IN
    IF n.item = << >> THEN << >> ELSE <<n.item[1]>> \o collect(n.it)

(* ---------------------------- planner --------------------------------- *)
\* the should-load range without the clamp at the logical length
should_load_unclamped(self, view) ==
    LET extra_load == RangeLen(view) \div 2 IN
    Range(CheckedSubOr0(view.start, extra_load), view.end + extra_load)

\* extra_load and should_load of next_request_for_view; the addition wraps,
\* as it does in a build without overflow checks
should_load_of(self, view) ==
    LET extra_load == RangeLen(view) \div 2 IN
    Range(CheckedSubOr0(view.start, extra_load),
          Min(WrappingAdd(view.end, extra_load), self.len))

\* in_view.end + extra_load overflows: a build with overflow checks panics there
add_overflows(view) ==
    RangeLen(view) # 0 /\ Overflows(view.end, RangeLen(view) \div 2)

\* an addition of next_request_for_view or of its call of iter_range overflows
plan_overflows(data, view) ==
    IF RangeLen(view) = 0 THEN FALSE
    ELSE IF add_overflows(view) THEN TRUE
    ELSE discard_overflows(data.blocks, should_load_of(data, view).start)

\* longest_empty = Some(current_empty) when it is None or strictly shorter
keep_longest(longest_empty, current_empty) ==
    IF longest_empty = << >> THEN <<current_empty>>
    ELSE IF RangeLen(longest_empty[1]) < RangeLen(current_empty)
    THEN <<current_empty>>
    ELSE longest_empty

\* the body of the for loop over iter_range(should_load).enumerate(), from i on
RECURSIVE scan(_, _, _, _)
scan(items, i, st, should_load) ==
    IF i >= Len(items) THEN st
    ELSE LET item == items[i + 1]
             st1 == IF item # << >>
                    THEN IF st.current_empty # << >>
                         THEN [longest_empty |->
                                  keep_longest(st.longest_empty,
                                      Range(st.current_empty[1], should_load.start + i)),
                               current_empty |-> << >>]
                         ELSE st
                    ELSE IF st.current_empty = << >>
                         THEN [st EXCEPT !.current_empty = <<should_load.start + i>>]
                         ELSE st
         IN scan(items, i + 1, st1, should_load)

\* next_request_for_view without the test for an empty view, the first run
\* being open before the loop starts
next_request_open(data, view) ==
    LET should_load == should_load_of(data, view)
        st == scan(collect(iter_range(data, should_load)), 0,
                   [longest_empty |-> << >>, current_empty |-> <<should_load.start>>],
                   should_load)
    IN IF st.current_empty # << >>
       THEN keep_longest(st.longest_empty,
                         Range(st.current_empty[1], should_load.end))
       ELSE st.longest_empty

next_request_for_view(data, view) ==
    IF RangeLen(view) = 0 THEN << >>
    ELSE
      LET should_load == should_load_of(data, view)
          st == scan(collect(iter_range(data, should_load)), 0,
                     [longest_empty |-> << >>, current_empty |-> << >>],
                     should_load)
      IN IF st.current_empty # << >>
         THEN keep_longest(st.longest_empty,
                           Range(st.current_empty[1], should_load.end))
         ELSE st.longest_empty

(* ---------------------------- actions --------------------------------- *)
\* the builds a call tells apart: with and without overflow checks when an
\* addition of the call overflows; otherwise both builds compute the same
Builds(overflows) == IF overflows THEN BOOLEAN ELSE {FALSE}

self == [len |-> len, blocks |-> blocks]

Constructed(c) ==
    /\ len = c.len
    /\ blocks = c.blocks
    /\ op = "new"
    /\ arg = Range(0, 0)
    /\ ok = TRUE
    /\ out = << >>
    /\ request = << >>

Init ==
    \/ \E n \in 0..MaxLen : Constructed(with_len(n))
    \/ \E vec \in FullVecs : Constructed(from(vec))

\* insert_vec storing the block before it checks the assertions
InsertVec_store_first(start, vec, maxBlocks) ==
    /\ Len(blocks) < maxBlocks
    /\ blocks' = insert_vec(blocks, start, vec)
    /\ len' = len
    /\ op' = "insert_vec"
    /\ arg' = Range(start, start + Len(vec))
    /\ ok' = insert_asserts(blocks, start, vec)
    /\ out' = << >>
    /\ request' = << >>

\* a call of insert_vec(start, vec) in a build with (overflow_checks) or
\* without overflow checks; a panic leaves the container as it was
InsertVecIn(overflow_checks, start, vec, maxBlocks) ==
    LET good == IF overflow_checks /\ insert_overflows(blocks, start, vec)
                THEN FALSE
                ELSE insert_asserts(blocks, start, vec)
    IN
    /\ Len(blocks) < maxBlocks
    /\ blocks' = IF good THEN insert_vec(blocks, start, vec) ELSE blocks
    /\ len' = len
    /\ op' = "insert_vec"
    /\ arg' = Range(start, start + Len(vec))
    /\ ok' = good
    /\ out' = << >>
    /\ request' = << >>

\* a call of insert_vec(start, vec), in either build
InsertVec(start, vec, maxBlocks) ==
    \E overflow_checks \in Builds(insert_overflows(blocks, start, vec)) :
        InsertVecIn(overflow_checks, start, vec, maxBlocks)

\* iter().collect()
IterAll ==
    /\ op' = "iter"
    /\ arg' = Range(0, len)
    /\ out' = collect(iter(self))
    /\ ok' = TRUE
    /\ request' = << >>
    /\ UNCHANGED <<len, blocks>>

\* iter_range(idxs).collect(), in a build with or without overflow checks
IterRange(idxs) ==
    \E overflow_checks \in Builds(discard_overflows(blocks, idxs.start)) :
        LET panics == overflow_checks IN
        /\ op' = "iter_range"
        /\ arg' = idxs
        /\ out' = IF panics THEN << >> ELSE collect(iter_range(self, idxs))
        /\ ok' = ~panics
        /\ request' = << >>
        /\ UNCHANGED <<len, blocks>>

\* next_request_for_view(&data, view), in a build with or without overflow
\* checks: with them an overflowing addition panics and nothing is returned
Plan(view) ==
    \E overflow_checks \in Builds(plan_overflows(self, view)) :
        LET panics == overflow_checks IN
        /\ op' = "next_request_for_view"
        /\ arg' = view
        /\ request' = IF panics THEN << >> ELSE next_request_for_view(self, view)
        /\ ok' = ~panics
        /\ out' = << >>
        /\ UNCHANGED <<len, blocks>>

Ranges(n) == {Range(a, b) : a \in 0..n, b \in 0..n}
ValidRanges(n) == {r \in Ranges(n) : r.start <= r.end}

Next ==
    \/ \E start \in 0..len, vec \in Datas : InsertVec(start, vec, MaxBlocks)
    \/ IterAll
    \/ \E idxs \in ValidRanges(len) : IterRange(idxs)
    \/ \E view \in Ranges(len + 1) : Plan(view)

Spec == Init /\ [][Next]_vars

\* the container grown by insert_vec alone, to more and longer blocks
InitGrow == \E n \in 0..MaxGrowLen : Constructed(with_len(n))

NextGrow ==
    \E start \in 0..len, vec \in GrowDatas : InsertVec(start, vec, MaxGrowBlocks)

SpecGrow == InitGrow /\ [][NextGrow]_vars

\* the planner on an empty container of the largest logical length
InitMax == Constructed(with_len(USIZE_MAX))

\* the views that start at most MaxTopView below usize::MAX
TopViews ==
    {Range(a, b) : a \in (USIZE_MAX - MaxTopView)..USIZE_MAX,
                   b \in (USIZE_MAX - MaxTopView)..USIZE_MAX}

NextMax == \E view \in {r \in TopViews : r.start <= r.end} : Plan(view)

SpecMax == InitMax /\ [][NextMax]_vars

\* the container of the largest logical length grown by insert_vec at the top
\* of the usize range, in a build without overflow checks
InitTop == Constructed(with_len(USIZE_MAX))

NextTop ==
    \E start \in (USIZE_MAX - MaxTopStart)..USIZE_MAX, vec \in Datas :
        InsertVecIn(FALSE, start, vec, MaxTopBlocks)

SpecTop == InitTop /\ [][NextTop]_vars

(* ------------------- the container as a partial map ------------------- *)
\* block k spans index i
Spans(bs, k, i) == bs[k].offset <= i /\ i < bs[k].offset + Len(bs[k].data)

Covered(bs, i) == \E k \in 1..Len(bs) : Spans(bs, k, i)

\* what index i holds: Some(element) when a block spans it, None otherwise
Holds(bs, i) ==
    IF Covered(bs, i)
    THEN LET k == CHOOSE k \in 1..Len(bs) : Spans(bs, k, i)
         IN <<bs[k].data[i - bs[k].offset + 1]>>
    ELSE << >>

\* iter().skip(a).take(n) of a collected sequence
SkipTake(s, a, n) == SubSeq(s, a + 1, Min(a + n, Len(s)))

\* the should-load range as the specification words it
ShouldLoad(n, view) ==
    LET extra == (view.end - view.start) \div 2
        lo == IF view.start - extra > 0 THEN view.start - extra ELSE 0
        hi == IF view.end + extra < n THEN view.end + extra ELSE n
    IN Range(lo, hi)

\* s..e is a run of uncovered indices inside r
GapIn(bs, r, s, e) ==
    /\ r.start <= s /\ s < e /\ e <= r.end
    /\ \A i \in s..(e - 1) : ~Covered(bs, i)

\* the longest run of uncovered indices inside r, the lowest one among equals
LongestGap(bs, r) ==
    LET gaps == {g \in Ranges(r.end) : GapIn(bs, r, g.start, g.end)}
    IN IF gaps = {} THEN << >>
       ELSE <<CHOOSE g \in gaps : \A h \in gaps :
                 \/ RangeLen(h) < RangeLen(g)
                 \/ RangeLen(h) = RangeLen(g) /\ g.start <= h.start>>

\* two index ranges share an index
SharesIndex(b, r) ==
    \E i \in r.start..(r.end - 1) : b.offset <= i /\ i < b.offset + Len(b.data)

RemoveAt(s, p) == SubSeq(s, 1, p - 1) \o SubSeq(s, p + 1, Len(s))

(* ------------------------------ claims -------------------------------- *)
\* C1: iter() yields, for every index i below the logical length, Some(v)
\* with v the element of the block spanning i, and None when no block spans i.
C1_IterMatchesBlocks ==
    op = "iter" =>
        /\ Len(out) = len
        /\ \A i \in 0..(len - 1) : out[i + 1] = Holds(blocks, i)

\* C2: iter_range(a..b) yields the same sequence as iter().skip(a).take(b-a).
C2_IterRangeIsSkipTake ==
    op = "iter_range" =>
        out = SkipTake(collect(iter(self)), arg.start, arg.end - arg.start)

\* C3: for a non-empty view the planner returns the longest run of uncovered
\* indices of the should-load range, the lowest such run among equally long ones.
C3_LongestGapReturned ==
    (op = "next_request_for_view" /\ arg.start < arg.end
        /\ LongestGap(blocks, ShouldLoad(len, arg)) # << >>)
    => request = LongestGap(blocks, ShouldLoad(len, arg))

\* C4: an insert_vec whose index range shares an index with a stored block
\* fails and stores nothing, wherever the new block starts.
C4_OverlapFails ==
    [][(op' = "insert_vec" /\ \E k \in 1..Len(blocks) : SharesIndex(blocks[k], arg'))
        => (~ok' /\ blocks' = blocks)]_vars

\* C5: every stored block ends at or before the logical length.
C5_BlocksWithinLength ==
    \A k \in 1..Len(blocks) : blocks[k].offset + Len(blocks[k].data) <= len

\* the block list is ordered by offset and consecutive blocks do not overlap
OrderedDisjoint(bs) ==
    \A k \in 1..(Len(bs) - 1) :
        bs[k + 1].offset >= bs[k].offset + Len(bs[k].data)

\* an insert either stores exactly the new block, the others as they were, or nothing
OneBlockAdded ==
    op' = "insert_vec" =>
        IF ok'
        THEN \E p \in 1..Len(blocks') :
                /\ blocks'[p].offset = arg'.start
                /\ Len(blocks'[p].data) = arg'.end - arg'.start
                /\ RemoveAt(blocks', p) = blocks
        ELSE blocks' = blocks

\* C6: in every reachable state the blocks are ordered by offset, consecutive
\* blocks satisfy o2 >= o1 + len(d1), and an insert never merges or splits blocks.
C6_BlocksOrdered ==
    [](OrderedDisjoint(blocks)) /\ [][OneBlockAdded /\ OrderedDisjoint(blocks')]_vars

\* C7: iter() ends after exactly len items, iter_range(a..b) after exactly b-a.
C7_ItemCount ==
    /\ op = "iter" => Len(out) = len
    /\ op = "iter_range" => Len(out) = arg.end - arg.start

\* witness of C7: a range iterated over a container holding an empty block
C7_Witness ==
    /\ op = "iter_range" /\ arg.start > 0 /\ arg.end - arg.start >= 2
    /\ Len(out) = arg.end - arg.start
    /\ Len(blocks) >= 2
    /\ \E k \in 1..Len(blocks) : Len(blocks[k].data) = 0

\* the vector that fills the range g
FillOf(g) == [i \in 1..(g.end - g.start) |-> i]

\* C8: when the planner returns g and g is then filled by insert_vec, the
\* planner called again with the same view does not return g.
C8_FilledGapNotReturned ==
    \A view \in ValidRanges(len) :
        LET g == next_request_for_view(self, view) IN
        (g # << >> /\ insert_asserts(blocks, g[1].start, FillOf(g[1])))
        => next_request_for_view(
              [len |-> len,
               blocks |-> insert_vec(blocks, g[1].start, FillOf(g[1]))],
              view) # g

\* C9: a returned range s..e satisfies 0 <= s < e <= len and lies inside the
\* should-load range.
C9_RequestInsideShouldLoad ==
    (op = "next_request_for_view" /\ request # << >>) =>
        LET r == request[1]
            sl == ShouldLoad(len, arg)
        IN /\ 0 <= r.start /\ r.start < r.end /\ r.end <= len
           /\ sl.start <= r.start /\ r.end <= sl.end

\* witness of C9: a request that reaches the clamp at the logical length
C9_Witness ==
    /\ op = "next_request_for_view" /\ request # << >>
    /\ blocks # << >>
    /\ request[1].end = len
    /\ arg.end + (arg.end - arg.start) \div 2 > len

\* C10: for a non-empty view the planner returns None exactly when every index
\* of the should-load range is covered by a block.
C10_NoneIffCovered ==
    (op = "next_request_for_view" /\ arg.start < arg.end) =>
        LET sl == ShouldLoad(len, arg) IN
        (request = << >>) <=> (\A i \in sl.start..(sl.end - 1) : Covered(blocks, i))

\* no index of the range r is covered by a block
NothingCovered(bs, r) == \A i \in r.start..(r.end - 1) : ~Covered(bs, i)

\* C11: when no index of the should-load range is covered, the planner returns
\* the whole should-load range for a non-empty view within 0..len.
C11_WholeRangeWhenEmpty ==
    (op = "next_request_for_view" /\ ok
        /\ arg.start < arg.end /\ arg.end <= len
        /\ NothingCovered(blocks, ShouldLoad(len, arg)))
    => request = <<ShouldLoad(len, arg)>>

\* the items of the vector vec at the indices of the range r
SomeOf(vec, r) == [i \in 1..(r.end - r.start) |-> <<vec[r.start + i]>>]

\* C13: a container built from a vector has the vector's length as logical
\* length, and iter() and every iter_range within it yield Some(data[i]) for
\* every index in order, never an absent item.
C13_FromIsFull ==
    (Len(blocks) = 1 /\ self = from(blocks[1].data)) =>
        /\ len = Len(blocks[1].data)
        /\ op \in {"iter", "iter_range"} => out = SomeOf(blocks[1].data, arg)

\* witness of C13: a proper sub-range of a vector with two different values
C13_Witness ==
    /\ Len(blocks) = 1 /\ self = from(blocks[1].data)
    /\ op = "iter_range" /\ arg.start > 0 /\ arg.end - arg.start >= 2
    /\ out = SomeOf(blocks[1].data, arg)
    /\ out[1] # out[2]

\* C14: the planner returns None for an empty view, whatever the container holds.
C14_EmptyViewNone ==
    (op = "next_request_for_view" /\ arg.start = arg.end) => (ok /\ request = << >>)

\* witness of C14: an empty view at an uncovered index of a container with blocks
C14_Witness ==
    /\ op = "next_request_for_view" /\ arg.start = arg.end
    /\ request = << >>
    /\ arg.start < len /\ ~Covered(blocks, arg.start)
    /\ blocks # << >>

\* C15: a successful insert_vec of an empty vector leaves the sequence yielded
\* by iter() unchanged.
C15_EmptyInsertKeepsIter ==
    [][(op' = "insert_vec" /\ ok' /\ arg'.start = arg'.end) =>
          collect(iter([len |-> len', blocks |-> blocks']))
              = collect(iter([len |-> len, blocks |-> blocks]))]_vars

\* C16: a successful insert_vec leaves the logical length and every stored
\* block (offset, contents, relative order) unchanged and adds the one new block.
C16_InsertFrame ==
    [][(op' = "insert_vec" /\ ok') =>
          /\ len' = len
          /\ Len(blocks') = Len(blocks) + 1
          /\ \E p \in 1..Len(blocks') :
                /\ blocks'[p].offset = arg'.start
                /\ Len(blocks'[p].data) = arg'.end - arg'.start
                /\ \A k \in 1..Len(blocks) :
                      blocks[k] = blocks'[IF k < p THEN k ELSE k + 1]]_vars

\* witness of C16: a block stored between two blocks it touches
C16_Witness ==
    /\ op = "insert_vec" /\ ok /\ Len(blocks) = 3
    /\ arg.start < arg.end
    /\ blocks[2].offset = arg.start /\ Len(blocks[2].data) = arg.end - arg.start
    /\ Len(blocks[1].data) > 0
    /\ blocks[1].offset + Len(blocks[1].data) = arg.start
    /\ blocks[3].offset = arg.end

\* C17: a failed insert_vec leaves logical length and block list as they were.
C17_FailedInsertKeepsAll ==
    [][(op' = "insert_vec" /\ ~ok') => (len' = len /\ blocks' = blocks)]_vars

\* witness of C17: an insert that failed although it shares no index with a block
C17_Witness ==
    /\ op = "insert_vec" /\ ~ok
    /\ blocks # << >>
    /\ arg.start < arg.end
    /\ \A k \in 1..Len(blocks) : ~SharesIndex(blocks[k], arg)

\* C18: the data fetched for a range the planner returned can be inserted.
C18_PlannedRangeInsertable ==
    (op = "next_request_for_view" /\ request # << >>) =>
        insert_asserts(blocks, request[1].start, FillOf(request[1]))

\* the cycle 'plan, insert data for the returned range' repeated for one view,
\* at most n rounds: how it ends and the container it ends with
RECURSIVE Cycle(_, _, _)
Cycle(c, view, n) ==
    LET g == next_request_for_view(c, view) IN
    IF g = << >> THEN [end |-> "none", data |-> c]
    ELSE IF n = 0 THEN [end |-> "more", data |-> c]
    ELSE IF ~insert_asserts(c.blocks, g[1].start, FillOf(g[1]))
    THEN [end |-> "panic", data |-> c]
    ELSE Cycle([len |-> c.len,
                blocks |-> insert_vec(c.blocks, g[1].start, FillOf(g[1]))],
               view, n - 1)

\* C19: for a non-empty view the cycle reaches a call that returns None, within
\* as many rounds as the container has indices, and then every index of the
\* should-load range is covered.
C19_CycleEndsCovered ==
    \A view \in ValidRanges(len) :
        view.start < view.end =>
            LET e == Cycle(self, view, len) IN
            /\ e.end = "none"
            /\ \A i \in ShouldLoad(len, view).start..(ShouldLoad(len, view).end - 1) :
                  Covered(e.data.blocks, i)

\* C20: with the largest logical length the planner neither aborts nor wraps:
\* the should-load end is min(len, view.end + len(view)/2) over the integers
\* and the result is computed from that range.
C20_NoOverflowAtMaxLen ==
    (op = "next_request_for_view" /\ len = USIZE_MAX
        /\ arg.start < arg.end /\ arg.end <= len) =>
        /\ ok
        /\ should_load_of(self, arg) = ShouldLoad(len, arg)
        /\ request = <<ShouldLoad(len, arg)>>

====
